---- MODULE Spec2Model ----
(***************************************************************************)
(* filter_leads.py: load a line-delimited JSON file of scraped listings,   *)
(* keep the listings without a website, with reviews and with a contact,   *)
(* drop repeats of (title, phone), classify each lead into a tier by       *)
(* keyword, sort, report and export three CSV files.                       *)
(*                                                                         *)
(* Python strings are sequences of one-character strings, so that strip(), *)
(* lower(), join, concatenation and the `in` substring test are computed.  *)
(* JSON values are tagged records (null, str, int, list, dict); a dict is  *)
(* a TLA+ record that has exactly the keys present in the JSON object.     *)
(***************************************************************************)
EXTENDS Integers, Sequences, FiniteSets

\* ---------------------------------------------------------------- bounds
MaxLines == 3

\* ------------------------------------------------------------- constants
INPUT_FILE == "bucharest-results.json"
OUTPUT_ALL == "bucharest-leads-all.csv"
OUTPUT_TIER1 == "bucharest-leads-tier1.csv"
OUTPUT_TIER2 == "bucharest-leads-tier2.csv"

TIER1_KEYWORDS ==
    << <<"i", "n", "s", "t", "a", "l", "a", "t", "o", "r">>, <<"p", "l", "u", "m", "b", "e", "r">>, <<"i", "n", "s", "t", "a", "l", "a", "t", "i", "i">>,
       <<"e", "l", "e", "c", "t", "r", "i", "c", "i", "a", "n">>, <<"e", "l", "e", "c", "t", "r", "i", "c", "e">>, <<"e", "l", "e", "c", "t", "r", "i", "c">>,
       <<"a", "c", "o", "p", "e", "r", "i", "s">>, <<"r", "o", "o", "f", "e", "r">>, <<"r", "o", "o", "f">>,
       <<"s", "e", "r", "v", "i", "c", "e", " ", "a", "u", "t", "o">>, <<"v", "u", "l", "c", "a", "n", "i", "z", "a", "r", "e">>, <<"m", "e", "c", "a", "n", "i", "c", " ", "a", "u", "t", "o">>, <<"r", "e", "p", "a", "r", "a", "t", "i", "i", " ", "a", "u", "t", "o">>,
       <<"a", "u", "t", "o", " ", "r", "e", "p", "a", "i", "r">>, <<"c", "a", "r", " ", "s", "e", "r", "v", "i", "c", "e">>, <<"c", "a", "r", " ", "r", "e", "p", "a", "i", "r">>,
       <<"a", "m", "e", "n", "a", "j", "a", "r", "i">>, <<"g", "r", "a", "d", "i", "n", "i">>, <<"p", "e", "i", "s", "a", "g", "i", "s", "t">>, <<"l", "a", "n", "d", "s", "c", "a", "p">>, <<"g", "r", "a", "d", "i", "n", "a", "r">>,
       <<"s", "p", "a", "t", "i", "i", " ", "v", "e", "r", "z", "i">> >>

TIER2_KEYWORDS ==
    << <<"d", "e", "n", "t", "i", "s", "t">>, <<"s", "t", "o", "m", "a", "t", "o", "l", "o", "g">>, <<"d", "e", "n", "t", "a", "r">>, <<"d", "e", "n", "t", "a", "l">>, <<"i", "m", "p", "l", "a", "n", "t">>,
       <<"s", "a", "l", "o", "n">>, <<"c", "o", "a", "f", "o", "r">>, <<"c", "o", "a", "f", "u", "r", "a">>, <<"f", "r", "i", "z", "e", "r", "i", "e">>, <<"h", "a", "i", "r">>,
       <<"i", "n", "f", "r", "u", "m", "u", "s", "e", "t", "a", "r", "e">>, <<"b", "e", "a", "u", "t", "y">>,
       <<"f", "i", "t", "n", "e", "s", "s">> >>

fieldnames ==
    << "tier", "title", "category", "phone", "emails",
       "review_count", "review_rating", "address", "google_maps_link", "status" >>

TopN == 10

\* ------------------------------------------------------ Python primitives
Null == [t |-> "null"]
Str(s) == [t |-> "str", v |-> s]
Num(n) == [t |-> "int", v |-> n]
List(l) == [t |-> "list", v |-> l]
Dict(d) == [t |-> "dict", v |-> d]

\* truth value of a Python object
Truthy(x) ==
    CASE x.t = "null" -> FALSE
      [] x.t = "str"  -> x.v # <<>>
      [] x.t = "int"  -> x.v # 0
      [] x.t = "list" -> x.v # <<>>
      [] x.t = "dict" -> DOMAIN x.v # {}

\* x or d
Or(x, d) == IF Truthy(x) THEN x ELSE d

\* e.get(k, d) on a dict
Get(e, k, d) == IF k \in DOMAIN e THEN e[k] ELSE d

Whitespace == {" ", "\t"}

RECURSIVE lstrip(_)
lstrip(s) ==
    IF s # <<>> /\ Head(s) \in Whitespace THEN lstrip(Tail(s)) ELSE s

RECURSIVE rstrip(_)
rstrip(s) ==
    IF s # <<>> /\ s[Len(s)] \in Whitespace
    THEN rstrip(SubSeq(s, 1, Len(s) - 1))
    ELSE s

\* str.strip()
strip(s) == rstrip(lstrip(s))

UpperCase == <<"A", "B", "C", "D", "E", "F", "G", "H", "I", "J", "K", "L", "M", "N", "O", "P", "Q", "R", "S", "T", "U", "V", "W", "X", "Y", "Z">>
LowerCase == <<"a", "b", "c", "d", "e", "f", "g", "h", "i", "j", "k", "l", "m", "n", "o", "p", "q", "r", "s", "t", "u", "v", "w", "x", "y", "z">>

LowerChar(c) ==
    IF \E i \in 1..Len(UpperCase) : UpperCase[i] = c
    THEN LowerCase[CHOOSE i \in 1..Len(UpperCase) : UpperCase[i] = c]
    ELSE c

\* str.lower()
lower(s) == [i \in 1..Len(s) |-> LowerChar(s[i])]

\* sep.join(parts)
RECURSIVE join(_, _)
join(sep, parts) ==
    IF parts = <<>> THEN <<>>
    ELSE IF Len(parts) = 1 THEN parts[1]
         ELSE parts[1] \o sep \o join(sep, Tail(parts))

\* kw in text  (substring containment)
In(kw, text) ==
    \E i \in 1..(Len(text) - Len(kw) + 1) : SubSeq(text, i, i + Len(kw) - 1) = kw

\* ------------------------------------------------------------ classifier
RECURSIVE AnyKeyword(_, _)
AnyKeyword(kws, text) ==
    IF kws = <<>> THEN FALSE
    ELSE IF In(Head(kws), text) THEN TRUE
         ELSE AnyKeyword(Tail(kws), text)

SearchText(title, categories) == lower(title \o <<" ">> \o join(<<" ">>, categories))

classify_tier_t2first(title, categories) ==
    LET text == SearchText(title, categories)
    IN  IF AnyKeyword(TIER2_KEYWORDS, text) THEN 2
        ELSE IF AnyKeyword(TIER1_KEYWORDS, text) THEN 1
             ELSE 3

classify_tier(title, categories) ==
    LET text == SearchText(title, categories)
    IN  IF AnyKeyword(TIER1_KEYWORDS, text) THEN 1
        ELSE IF AnyKeyword(TIER2_KEYWORDS, text) THEN 2
             ELSE 3

\* ------------------------------------------------------------ input file
\* A line of the input file: blank after strip(), text that json.loads
\* rejects with JSONDecodeError, or text that decodes to the value `val`.
BlankLine == [kind |-> "blank"]
MalformedLine == [kind |-> "malformed"]
JsonLine(val) == [kind |-> "json", val |-> val]

\* The lines an input file is drawn from.
LINES ==
    << BlankLine,
       MalformedLine,
       JsonLine(Num(42)),
       \* 4: tier 1, every optional key absent
       JsonLine(Dict([title |-> Str(<<"R", "o", "o", "f">>), phone |-> Str(<<"7">>),
                      review_count |-> Num(5), category |-> Str(<<"c", "1">>),
                      review_rating |-> Num(4), address |-> Str(<<"a", "1">>),
                      link |-> Str(<<"l", "1">>), status |-> Str(<<"s", "1">>)])),
       \* 5: same title and phone as 4 once trimmed, more reviews
       JsonLine(Dict([title |-> Str(<<" ", "R", "o", "o", "f", " ">>), phone |-> Str(<<"7", " ">>),
                      web_site |-> Str(<<>>), emails |-> List(<<>>),
                      categories |-> List(<< <<"s", "a", "l", "o", "n">> >>),
                      review_count |-> Num(9), category |-> Str(<<"c", "2">>),
                      review_rating |-> Num(5), address |-> Str(<<"a", "2">>),
                      link |-> Str(<<"l", "2">>), status |-> Str(<<"s", "2">>)])),
       \* 6, 7: different (title, phone), same title + "|" + phone
       JsonLine(Dict([title |-> Str(<<"P", "r", "o", "o", "f", "s", "|">>), phone |-> Str(<<"7">>),
                      web_site |-> Null, review_count |-> Num(5)])),
       JsonLine(Dict([title |-> Str(<<"P", "r", "o", "o", "f", "s">>), phone |-> Str(<<"|", "7">>),
                      review_count |-> Num(5), category |-> Str(<<"c", "2">>)])),
       \* 8: tier 2, reached by e-mail only, whitespace-only web_site
       JsonLine(Dict([title |-> Str(<<"H", "a", "i", "r">>), phone |-> Null,
                      emails |-> List(<< <<"e">>, <<"f">> >>),
                      web_site |-> Str(<<" ">>), review_count |-> Num(5)])),
       \* 9: tier 3
       JsonLine(Dict([title |-> Str(<<"B", "a", "r">>), phone |-> Str(<<"7">>),
                      review_count |-> Num(1)])),
       \* 10: tier 1 keyword spanning the title and the first category
       JsonLine(Dict([title |-> Str(<<"S", "e", "r", "v", "i", "c", "e">>), phone |-> Str(<<"9">>),
                      categories |-> List(<< <<"A", "u", "t", "o">>, <<"S", "p", "a">> >>),
                      review_count |-> Num(2)])),
       \* 11: has a website
       JsonLine(Dict([title |-> Str(<<"R", "o", "o", "f">>), phone |-> Str(<<"7">>),
                      web_site |-> Str(<<" ", "w", " ">>), review_count |-> Num(5)])),
       \* 12, 13: no reviews (null, absent)
       JsonLine(Dict([title |-> Str(<<"R", "o", "o", "f">>), phone |-> Str(<<"7">>),
                      review_count |-> Null])),
       JsonLine(Dict([title |-> Str(<<"R", "o", "o", "f">>), phone |-> Str(<<"7">>)])),
       \* 14: no contact
       JsonLine(Dict([title |-> Str(<<"R", "o", "o", "f">>), phone |-> Str(<<" ">>),
                      emails |-> List(<<>>), review_count |-> Num(5)])),
       \* 15: a non-empty emails list holding an empty address
       JsonLine(Dict([title |-> Str(<<"B", "a", "r">>), phone |-> Str(<<>>),
                      emails |-> List(<< <<>> >>), review_count |-> Num(5)]))
    >>

\* the file whose lines are LINES[f[1]], ..., LINES[f[n]]
InputFile(f) == [i \in DOMAIN f |-> LINES[f[i]]]

\* json.loads(line): the decoded value, or JSONDecodeError
json_loads(line) ==
    IF line.kind = "json" THEN [ok |-> TRUE, val |-> line.val]
    ELSE [ok |-> FALSE, val |-> Null]

\* ------------------------------------------------------------------ state
VARIABLES
    inputExists,   \* os.path.exists(INPUT_FILE)
    input,         \* the lines of INPUT_FILE
    files,         \* the three export files
    pc,            \* position of main()
    li,            \* number of input lines the load loop has consumed
    entries,       \* decoded values, in input order
    ei,            \* number of entries the filter loop has decided
    leads,         \* the lead list
    seen,          \* dedup keys of the leads
    tier1,         \* the tier-1 sublist, once computed
    out,           \* messages printed so far
    exitCode       \* process exit status, -1 while running

vars == << inputExists, input, files, pc, li, entries, ei, leads, seen,
           tier1, out, exitCode >>

OutputFiles == {OUTPUT_ALL, OUTPUT_TIER1, OUTPUT_TIER2}

NoFile == [exists |-> FALSE, header |-> <<>>, rows |-> <<>>]
StaleFile == [exists |-> TRUE, header |-> << "stale" >>, rows |-> <<>>]

Init ==
    /\ inputExists \in BOOLEAN
    /\ \E n \in 0..MaxLines : \E f \in [1..n -> 1..Len(LINES)] :
           input = IF inputExists THEN InputFile(f) ELSE <<>>
    /\ files \in IF inputExists
                 THEN { [f \in OutputFiles |-> StaleFile] }
                 ELSE { [f \in OutputFiles |-> NoFile], [f \in OutputFiles |-> StaleFile] }
    /\ pc = "start"
    /\ li = 0
    /\ entries = <<>>
    /\ ei = 0
    /\ leads = <<>>
    /\ seen = {}
    /\ tier1 = <<>>
    /\ out = <<>>
    /\ exitCode = -1

\* ----------------------------------------------------------------- loader
console(msg, n) == Append(out, [msg |-> msg, n |-> n])

MissingInput_fallthrough ==
    /\ pc = "start"
    /\ ~inputExists
    /\ out' = console("ERROR: not found", 0)
    /\ pc' = "load"
    /\ UNCHANGED << inputExists, input, files, li, entries, ei, leads, seen,
                    tier1, exitCode >>

\* if not os.path.exists(INPUT_FILE): print error; sys.exit(1)
MissingInput ==
    /\ pc = "start"
    /\ ~inputExists
    /\ out' = console("ERROR: not found", 0)
    /\ exitCode' = 1
    /\ pc' = "exited"
    /\ UNCHANGED << inputExists, input, files, li, entries, ei, leads, seen, tier1 >>

\* entries = []; open(INPUT_FILE)
OpenInput ==
    /\ pc = "start"
    /\ inputExists
    /\ pc' = "load"
    /\ UNCHANGED << inputExists, input, files, li, entries, ei, leads, seen,
                    tier1, out, exitCode >>

\* one iteration of `for line in f`
LoadLine ==
    /\ pc = "load"
    /\ li < Len(input)
    /\ LET line == input[li + 1]
           parsed == json_loads(line)
       IN  /\ li' = li + 1
           /\ entries' = IF line.kind = "blank" THEN entries
                         ELSE IF parsed.ok THEN Append(entries, parsed.val)
                              ELSE entries
    /\ UNCHANGED << inputExists, input, files, pc, ei, leads, seen, tier1,
                    out, exitCode >>

\* the file is exhausted: print the total and enter the filter loop
LoadDone_early ==
    /\ pc = "load"
    /\ out' = console("Total scraped entries", Len(entries))
    /\ pc' = "filter"
    /\ UNCHANGED << inputExists, input, files, li, entries, ei, leads, seen,
                    tier1, exitCode >>

LoadDone ==
    /\ pc = "load"
    /\ li = Len(input)
    /\ out' = console("Total scraped entries", Len(entries))
    /\ pc' = "filter"
    /\ UNCHANGED << inputExists, input, files, li, entries, ei, leads, seen,
                    tier1, exitCode >>

\* ----------------------------------------------------------------- filter
\* the locals of the loop body, for a dict e
website(e) == strip(Or(Get(e, "web_site", Null), Str(<<>>)).v)
review_count(e) == Or(Get(e, "review_count", Num(0)), Num(0)).v
phone(e) == strip(Or(Get(e, "phone", Null), Str(<<>>)).v)
emails(e) == Or(Get(e, "emails", Null), List(<<>>)).v
title(e) == strip(Or(Get(e, "title", Null), Str(<<>>)).v)
categories(e) == Or(Get(e, "categories", Null), List(<<>>)).v

\* the three `continue` tests ahead of the dedup
Skipped(e) ==
    \/ website(e) # <<>>
    \/ review_count(e) < 1
    \/ (phone(e) = <<>> /\ emails(e) = <<>>)

dedup_key_title_only(ti, ph) == ti

dedup_key(ti, ph) == ti \o <<"|">> \o ph

seen_add_forgotten(s, key) == s

seen_add(s, key) == s \cup {key}

\* the dict appended to leads; src is a history field (the index in
\* entries of the record the lead was built from), not a CSV column
Lead(e, src) ==
    [ tier |-> classify_tier(title(e), categories(e)),
      title |-> title(e),
      category |-> Get(e, "category", Str(<<>>)),
      phone |-> phone(e),
      emails |-> IF emails(e) # <<>> THEN join(<<";", " ">>, emails(e)) ELSE <<>>,
      review_count |-> review_count(e),
      review_rating |-> Get(e, "review_rating", Num(0)),
      address |-> Get(e, "address", Str(<<>>)),
      google_maps_link |-> Get(e, "link", Str(<<>>)),
      status |-> Get(e, "status", Str(<<>>)),
      src |-> src ]

\* one iteration of `for e in entries`; e.get on a value that is not a
\* dict raises AttributeError, which nothing catches
FilterEntry ==
    /\ pc = "filter"
    /\ ei < Len(entries)
    /\ LET e == entries[ei + 1]
       IN  IF e.t # "dict"
           THEN /\ pc' = "crashed"
                /\ exitCode' = 1
                /\ UNCHANGED << ei, leads, seen >>
           ELSE /\ ei' = ei + 1
                /\ UNCHANGED << pc, exitCode >>
                /\ IF Skipped(e.v) \/ dedup_key(title(e.v), phone(e.v)) \in seen
                   THEN UNCHANGED << leads, seen >>
                   ELSE /\ seen' = seen_add(seen, dedup_key(title(e.v), phone(e.v)))
                        /\ leads' = Append(leads, Lead(e.v, ei + 1))
    /\ UNCHANGED << inputExists, input, files, li, entries, tier1, out >>

\* ----------------------------------------------------------------- ranker
sort_key_ascending(x) == << x.tier, x.review_count >>

\* the sort key  (x["tier"], -x["review_count"])  and tuple comparison
sort_key(x) == << x.tier, 0 - x.review_count >>

KeyLess(a, b) ==
    \/ sort_key(a)[1] < sort_key(b)[1]
    \/ (sort_key(a)[1] = sort_key(b)[1] /\ sort_key(a)[2] < sort_key(b)[2])

\* insert x behind every element whose key is not greater than x's
RECURSIVE insert(_, _)
insert(sorted, x) ==
    IF sorted = <<>> THEN << x >>
    ELSE IF KeyLess(x, Head(sorted)) THEN << x >> \o sorted
         ELSE << Head(sorted) >> \o insert(Tail(sorted), x)

\* list.sort(key=...): a stable sort
RECURSIVE sort(_)
sort(l) ==
    IF l = <<>> THEN <<>>
    ELSE insert(sort(SubSeq(l, 1, Len(l) - 1)), l[Len(l)])

SelectTier(l, t) == SelectSeq(l, LAMBDA x : x.tier = t)

tier_counts(l, t) == Len(SelectTier(l, t))

\* leads.sort(...)
Sort ==
    /\ pc = "filter"
    /\ ei = Len(entries)
    /\ leads' = sort(leads)
    /\ pc' = "report"
    /\ UNCHANGED << inputExists, input, files, li, entries, ei, seen, tier1,
                    out, exitCode >>

\* the lead count and the three tier counts
Report ==
    /\ pc = "report"
    /\ out' = out \o << [msg |-> "Filtered leads", n |-> Len(leads)],
                        [msg |-> "Tier 1", n |-> tier_counts(leads, 1)],
                        [msg |-> "Tier 2", n |-> tier_counts(leads, 2)],
                        [msg |-> "Tier 3", n |-> tier_counts(leads, 3)] >>
    /\ pc' = "write_all"
    /\ UNCHANGED << inputExists, input, files, li, entries, ei, leads, seen,
                    tier1, exitCode >>

\* --------------------------------------------------------------- exporter
\* DictWriter keeps the ten columns of fieldnames
Row(l) == [f \in {fieldnames[i] : i \in 1..Len(fieldnames)} |-> l[f]]

Rows(data) == [i \in 1..Len(data) |-> Row(data[i])]

\* write_csv(filename, data): truncate, header, rows
write_csv(fs, filename, data) ==
    [fs EXCEPT ![filename] =
        [exists |-> TRUE, header |-> fieldnames, rows |-> Rows(data)]]

tier1_of(l) == SelectTier(l, 1)

tier2_of_rest(l) == SelectSeq(l, LAMBDA x : x.tier >= 2)

tier2_of(l) == SelectTier(l, 2)

WriteAll ==
    /\ pc = "write_all"
    /\ files' = write_csv(files, OUTPUT_ALL, leads)
    /\ out' = console("Written", Len(leads))
    /\ pc' = "write_tier1"
    /\ UNCHANGED << inputExists, input, li, entries, ei, leads, seen, tier1,
                    exitCode >>

WriteTier1 ==
    /\ pc = "write_tier1"
    /\ tier1' = tier1_of(leads)
    /\ files' = write_csv(files, OUTPUT_TIER1, tier1')
    /\ out' = console("Written", Len(tier1'))
    /\ pc' = "write_tier2"
    /\ UNCHANGED << inputExists, input, li, entries, ei, leads, seen, exitCode >>

WriteTier2 ==
    /\ pc = "write_tier2"
    /\ files' = write_csv(files, OUTPUT_TIER2, tier2_of(leads))
    /\ out' = console("Written", Len(tier2_of(leads)))
    /\ pc' = "preview"
    /\ UNCHANGED << inputExists, input, li, entries, ei, leads, seen, tier1,
                    exitCode >>

Min(a, b) == IF a < b THEN a ELSE b

\* the top-10 preview of tier1, then main() returns and the process exits 0
Preview ==
    /\ pc = "preview"
    /\ out' = Append(out, [msg |-> "TOP 10 LEADS",
                           n |-> Len(SubSeq(tier1, 1, Min(TopN, Len(tier1))))])
    /\ exitCode' = 0
    /\ pc' = "done"
    /\ UNCHANGED << inputExists, input, files, li, entries, ei, leads, seen, tier1 >>

Next ==
    \/ MissingInput
    \/ OpenInput
    \/ LoadLine
    \/ LoadDone
    \/ FilterEntry
    \/ Sort
    \/ Report
    \/ WriteAll
    \/ WriteTier1
    \/ WriteTier2
    \/ Preview

Spec == Init /\ [][Next]_vars

TypeOK ==
    /\ pc \in {"start", "load", "filter", "report", "write_all", "write_tier1",
               "write_tier2", "preview", "done", "exited", "crashed"}
    /\ li \in 0..Len(input)
    /\ ei \in 0..Len(entries)
    /\ exitCode \in {-1, 0, 1}

\* ======================================================== properties
\* the record the lead l was built from
Record(l) == entries[l.src].v

\* the entries the filter loop has decided, and those that passed the
\* three inclusion tests, stated on the raw record
Decided == 1..ei

NoWebsite(e) ==
    \/ "web_site" \notin DOMAIN e
    \/ e.web_site = Null
    \/ strip(e.web_site.v) = <<>>

ReviewsOf(e) ==
    IF "review_count" \notin DOMAIN e \/ e.review_count = Null
    THEN 0 ELSE e.review_count.v

TrimmedOf(e, k) ==
    IF k \notin DOMAIN e \/ e[k] = Null THEN <<>> ELSE strip(e[k].v)

HasEmails(e) ==
    /\ "emails" \in DOMAIN e
    /\ e.emails # Null
    /\ e.emails.v # <<>>

Passes(e) ==
    /\ NoWebsite(e)
    /\ ReviewsOf(e) >= 1
    /\ (TrimmedOf(e, "phone") # <<>> \/ HasEmails(e))

PassedSoFar == { i \in Decided : Passes(entries[i].v) }

KeyOf(e) == TrimmedOf(e, "title") \o << "|" >> \o TrimmedOf(e, "phone")

Written(f) == files[f].header = fieldnames

AllRows == UNION { { files[f].rows[i] : i \in 1..Len(files[f].rows) } : f \in OutputFiles }

LeadIdx == 1..Len(leads)

\* C1 (as claimed): every lead comes from a record without a website and
\* with at least one review, and the lead itself, like every exported row,
\* has a non-empty phone field or a non-empty emails field.
C1_EveryLeadHasContact ==
    /\ \A i \in LeadIdx :
          /\ NoWebsite(Record(leads[i]))
          /\ ReviewsOf(Record(leads[i])) >= 1
          /\ (leads[i].phone # <<>> \/ leads[i].emails # <<>>)
    /\ \A r \in AllRows : r.phone # <<>> \/ r.emails # <<>>

\* C2: no two distinct leads of the lead list share the (title, phone)
\* pair, at every point of the run; nor do two rows of one export file.
C2_UniqueTitlePhone ==
    /\ \A i, j \in LeadIdx :
          i # j => << leads[i].title, leads[i].phone >> # << leads[j].title, leads[j].phone >>
    /\ \A f \in OutputFiles : \A i, j \in 1..Len(files[f].rows) :
          i # j => << files[f].rows[i].title, files[f].rows[i].phone >>
                   # << files[f].rows[j].title, files[f].rows[j].phone >>

\* a repeated (title, phone) among the passing records was dropped, and the
\* run exported at least two leads
C2_Witness ==
    /\ pc = "done"
    /\ Len(files[OUTPUT_ALL].rows) >= 2
    /\ \E i, j \in PassedSoFar :
          /\ i < j
          /\ TrimmedOf(entries[i].v, "title") = TrimmedOf(entries[j].v, "title")
          /\ TrimmedOf(entries[i].v, "phone") = TrimmedOf(entries[j].v, "phone")

FirstWithKey(k) ==
    CHOOSE i \in PassedSoFar :
        /\ KeyOf(entries[i].v) = k
        /\ \A j \in PassedSoFar : KeyOf(entries[j].v) = k => i <= j

FieldOr(e, k, d) == IF k \in DOMAIN e THEN e[k] ELSE d

\* C3: for each dedup key among the passing records decided so far, exactly
\* one lead carries it, and that lead was built from the first passing
\* record with the key: its review_count, rating, category, address, link
\* and status are that record's.
C3_FirstRecordKept ==
    \A i \in PassedSoFar :
        LET k == KeyOf(entries[i].v)
            first == entries[FirstWithKey(k)].v
            kept == { m \in LeadIdx : leads[m].title \o << "|" >> \o leads[m].phone = k }
        IN  /\ Cardinality(kept) = 1
            /\ \A m \in kept :
                  /\ leads[m].src = FirstWithKey(k)
                  /\ leads[m].review_count = ReviewsOf(first)
                  /\ leads[m].review_rating = FieldOr(first, "review_rating", Num(0))
                  /\ leads[m].category = FieldOr(first, "category", Str(<<>>))
                  /\ leads[m].address = FieldOr(first, "address", Str(<<>>))
                  /\ leads[m].google_maps_link = FieldOr(first, "link", Str(<<>>))
                  /\ leads[m].status = FieldOr(first, "status", Str(<<>>))

\* a later passing record with the same key and more reviews was dropped
C3_Witness ==
    /\ pc = "done"
    /\ \E i, j \in PassedSoFar :
          /\ i < j
          /\ KeyOf(entries[i].v) = KeyOf(entries[j].v)
          /\ ReviewsOf(entries[j].v) > ReviewsOf(entries[i].v)
          /\ \E m \in LeadIdx : leads[m].src = i

\* C10 (as claimed): a passing record is left out of the lead list only if
\* an earlier passing record has the same trimmed title and the same
\* trimmed phone.
C10_DroppedOnlyForSamePair ==
    \A i \in PassedSoFar :
        (\A m \in LeadIdx : leads[m].src # i)
        => \E j \in PassedSoFar :
              /\ j < i
              /\ TrimmedOf(entries[j].v, "title") = TrimmedOf(entries[i].v, "title")
              /\ TrimmedOf(entries[j].v, "phone") = TrimmedOf(entries[i].v, "phone")

\* position of x in the list l
Pos(l, x) == CHOOSE k \in 1..Len(l) : l[k] = x

Ordered(a, b) ==
    \/ a.tier < b.tier
    \/ (a.tier = b.tier /\ a.review_count >= b.review_count)

SameRank(a, b) == a.tier = b.tier /\ a.review_count = b.review_count

\* after is the stable sort of before by (tier ascending, review_count
\* descending)
StableSorted(before, after) ==
    /\ Len(after) = Len(before)
    /\ \A x \in { before[i] : i \in 1..Len(before) } :
          Cardinality({ i \in 1..Len(before) : before[i] = x })
          = Cardinality({ i \in 1..Len(after) : after[i] = x })
    /\ \A i \in 1..(Len(after) - 1) : Ordered(after[i], after[i + 1])
    /\ \A i, j \in 1..Len(after) :
          (i < j /\ SameRank(after[i], after[j]))
          => Pos(before, after[i]) < Pos(before, after[j])

\* C4: the sort step turns the filter-stage lead list into its stable sort
\* by (tier ascending, review_count descending), and the full export holds
\* the rows of that list in that order, so adjacent rows are ordered.
C4_StableSort ==
    /\ [][(pc = "filter" /\ pc' = "report") => StableSorted(leads, leads')]_vars
    /\ [](Written(OUTPUT_ALL) =>
            /\ files[OUTPUT_ALL].rows = Rows(leads)
            /\ \A i \in 1..(Len(files[OUTPUT_ALL].rows) - 1) :
                  Ordered(files[OUTPUT_ALL].rows[i], files[OUTPUT_ALL].rows[i + 1])
            /\ \A i, j \in LeadIdx :
                  (i < j /\ SameRank(leads[i], leads[j])) => leads[i].src < leads[j].src)

\* the sort moved a lead forward, and two exported leads of equal tier and
\* review_count kept their input order
C4_Witness ==
    /\ pc = "done"
    /\ Len(files[OUTPUT_ALL].rows) >= 3
    /\ \E i, j \in LeadIdx : i < j /\ leads[i].src > leads[j].src
    /\ \E i, j \in LeadIdx : i < j /\ SameRank(leads[i], leads[j])
    /\ \E i, j \in LeadIdx : leads[i].tier = leads[j].tier
                               /\ leads[i].review_count > leads[j].review_count

RowsOfTier(rows, t) == SelectSeq(rows, LAMBDA r : r.tier = t)

\* C5: every lead has tier 1, 2 or 3; once all three files are written the
\* tier-1 export is exactly the tier-1 rows of the full export, in the same
\* order, the tier-2 export exactly its tier-2 rows, and no tier-3 row is
\* in either subset export.
C5_TierPartition ==
    /\ \A i \in LeadIdx : leads[i].tier \in {1, 2, 3}
    /\ Written(OUTPUT_TIER1) =>
          files[OUTPUT_TIER1].rows = RowsOfTier(files[OUTPUT_ALL].rows, 1)
    /\ Written(OUTPUT_TIER2) =>
          files[OUTPUT_TIER2].rows = RowsOfTier(files[OUTPUT_ALL].rows, 2)
    /\ \A f \in {OUTPUT_TIER1, OUTPUT_TIER2} : \A i \in 1..Len(files[f].rows) :
          files[f].rows[i].tier # 3

\* all three files written, with leads of each of the three tiers
C5_Witness ==
    /\ pc = "done"
    /\ \A t \in {1, 2, 3} : \E i \in 1..Len(files[OUTPUT_ALL].rows) :
          files[OUTPUT_ALL].rows[i].tier = t
    /\ files[OUTPUT_TIER1].rows # <<>>
    /\ files[OUTPUT_TIER2].rows # <<>>

KeywordSet(kws) == { kws[i] : i \in 1..Len(kws) }

\* the lowercase text of a record: title and categories joined by spaces
TextOf(l) ==
    LET cats == IF "categories" \in DOMAIN Record(l) /\ Record(l).categories # Null
                THEN Record(l).categories.v ELSE <<>>
    IN  lower(l.title \o << " " >> \o join(<< " " >>, cats))

Mentions(kws, text) == \E kw \in KeywordSet(kws) : In(kw, text)

\* C6: the tier of a lead is 1 exactly when its text contains some Tier-1
\* keyword, 2 exactly when it contains no Tier-1 keyword and some Tier-2
\* keyword, and 3 otherwise.
C6_ClassifyTier ==
    \A i \in LeadIdx :
        LET text == TextOf(leads[i])
        IN  /\ leads[i].tier = 1 <=> Mentions(TIER1_KEYWORDS, text)
            /\ leads[i].tier = 2 <=> (~Mentions(TIER1_KEYWORDS, text)
                                      /\ Mentions(TIER2_KEYWORDS, text))
            /\ leads[i].tier = 3 <=> (~Mentions(TIER1_KEYWORDS, text)
                                      /\ ~Mentions(TIER2_KEYWORDS, text))

\* a lead whose text has keywords of both lists, one whose only keyword
\* sits inside a longer word, and one with a Tier-2 keyword only
C6_Witness ==
    /\ \E i \in LeadIdx : /\ Mentions(TIER1_KEYWORDS, TextOf(leads[i]))
                          /\ Mentions(TIER2_KEYWORDS, TextOf(leads[i]))
                          /\ leads[i].tier = 1
    /\ \E i \in LeadIdx : /\ In(<< "p", "r", "o", "o", "f", "s" >>, TextOf(leads[i]))
                          /\ leads[i].tier = 1
    /\ \E i \in LeadIdx : leads[i].tier = 2

HasPrinted(m) == \E i \in 1..Len(out) : out[i].msg = m

IsStructured(line) == line.kind = "json" /\ line.val.t = "dict"

\* the structured records of the input file, in input order
StructuredRecords ==
    LET kept == SelectSeq(input, IsStructured)
    IN  [i \in 1..Len(kept) |-> kept[i].val]

Running == pc \notin {"done", "exited", "crashed"}

\* C7 (as claimed): a line that is not one structured record never stops
\* the run; once the loader is through, the entries are exactly the
\* structured records of the file in input order, and a finished run has
\* filtered all of them and written the three export files.
C7_BadLinesOnlyDropped ==
    /\ pc # "crashed"
    /\ pc \in {"filter", "report", "write_all", "write_tier1", "write_tier2",
               "preview", "done"} => entries = StructuredRecords
    /\ (inputExists /\ ~Running) =>
          /\ ei = Len(StructuredRecords)
          /\ \A f \in OutputFiles : Written(f)

Untouched == files \in { [f \in OutputFiles |-> NoFile], [f \in OutputFiles |-> StaleFile] }

HeaderOnly(f) == files[f] = [exists |-> TRUE, header |-> fieldnames, rows |-> <<>>]

\* C8: with the input file missing the process prints the error and exits
\* with status 1, having loaded nothing and touched no export file; with
\* the input file present, normal completion exits with status 0, and with
\* zero leads each export file then holds the header row only.
C8_ExitStatus ==
    /\ ~inputExists =>
          /\ pc \in {"start", "exited"}
          /\ li = 0 /\ entries = <<>> /\ leads = <<>>
          /\ Untouched
          /\ pc = "exited" => (exitCode = 1 /\ HasPrinted("ERROR: not found"))
    /\ pc = "exited" => ~inputExists
    /\ pc = "done" =>
          /\ inputExists
          /\ exitCode = 0
          /\ leads = <<>> => \A f \in OutputFiles : HeaderOnly(f)
    /\ exitCode = 0 => pc = "done"

\* the input file is missing, the process has exited, and the export files
\* of an earlier run are still there
C8_Witness ==
    /\ ~inputExists
    /\ pc = "exited"
    /\ exitCode = 1
    /\ \A f \in OutputFiles : files[f] = StaleFile

FilterStarted == ei > 0 \/ pc = "crashed"

\* C9 (as claimed): the Loader has consumed every line before the Filter
\* examines a record, the Filter has decided every record before the
\* Classifier classifies one, and the report with the top-10 preview is
\* printed before the Exporter writes a file.
C9_StrictStages ==
    /\ FilterStarted => li = Len(input)
    /\ leads # <<>> => ei = Len(entries)
    /\ (\E f \in OutputFiles : Written(f)) =>
          (HasPrinted("Tier 3") /\ HasPrinted("TOP 10 LEADS"))

\* the passing records decided so far, one per dedup key
AcceptedSoFar == { KeyOf(entries[i].v) : i \in PassedSoFar }

\* C9 (amended): the Loader has consumed every line before the Filter
\* examines a record; the Classifier runs inside the filter loop, so at
\* every point every record accepted so far is already a classified lead;
\* the lead and tier counts are printed after the Filter has decided every
\* record and before the Exporter writes a file; the top-10 preview is
\* printed after all three files are written.
C9_InterleavedStages ==
    /\ FilterStarted => (li = Len(input) /\ HasPrinted("Total scraped entries"))
    /\ Len(leads) = Cardinality(AcceptedSoFar)
    /\ \A i \in LeadIdx : leads[i].src <= ei /\ leads[i].tier \in {1, 2, 3}
    /\ HasPrinted("Tier 3") => ei = Len(entries)
    /\ (\E f \in OutputFiles : Written(f)) => HasPrinted("Tier 3")
    /\ HasPrinted("TOP 10 LEADS") => \A f \in OutputFiles : Written(f)

\* a finished run in which the first record was classified while a later
\* record was still undecided
C9_Witness ==
    /\ pc = "done"
    /\ HasPrinted("TOP 10 LEADS")
    /\ Len(entries) >= 2
    /\ \E i \in LeadIdx : leads[i].src < Len(entries)

====
